---- MODULE Spec2Model ----
(***************************************************************************)
(* Fetch-and-reconcile subsystem of the Steam catalog ETL pipeline.        *)
(*                                                                         *)
(* Modelled programs:                                                      *)
(*   main.py               the Batch Driver (fetch_all_app_details) and    *)
(*                         the workflow around it (main_processing_workflow)*)
(*   retry_failed_apps.py  the Retry-Sweep Driver (retry_failed_apps_loop) *)
(*   steam_api_client.py   the single-attempt fetch and the retry policy   *)
(*   file_operations.py    the store operations (same code as main.py's)   *)
(*                                                                         *)
(* A Detail Map is modelled by its key set: the record stored under a key  *)
(* is the remote's opaque payload and no operation reads it.               *)
(***************************************************************************)
EXTENDS Integers, Sequences, FiniteSets, TLC

\* ------------------------------------------------------------------ bounds
\* App IDs of the catalog are 1..MaxId.
MaxId == 3
\* Longest app_ids list handed directly to fetch_all_app_details.
MaxInput == 1
\* Longest failed_app_ids list handed directly to process_failed_apps_batch.
MaxRetryInput == 2
\* batch_size parameter of the drivers (checkpoint every BatchSize items).
BatchSize == 2
\* Driver processes started one after another on the same files.
MaxRuns == 2
\* Longest app_ids list of the batch loop followed event by event.
MaxBatch == 3
\* DAG runs the scheduler creates.
MaxDagRuns == 2
\* Longest run of consecutive error responses the remote gives one resolve call.
MaxErrs == 9

\* ------------------------------------------------------- program constants
\* @retry(tries=8, delay=1, backoff=2, max_delay=120)
Tries == 8
Delay == 1
Backoff == 2
MaxDelay == 120

Ids == 1..MaxId

\* --------------------------------------------------------------- helpers
Range(s) == {s[k] : k \in 1..Len(s)}

Digits == <<"0", "1", "2", "3", "4", "5", "6", "7", "8", "9">>

\* str(app_id)
RECURSIVE Str(_)
Str(n) == IF n < 10 THEN Digits[n + 1] ELSE Str(n \div 10) \o Digits[(n % 10) + 1]

\* int(app_id) for a key written by str()
IntOf(s) == CHOOSE n \in 0..(10 * MaxId + 9) : Str(n) = s

\* list(set(ids)): CPython walks the set's hash table slot by slot, and a
\* small non-negative int hashes to itself, so for the IDs of the model the
\* list comes out duplicate-free in ascending order.
RECURSIVE ListOfSet(_)
ListOfSet(S) ==
    IF S = {} THEN <<>>
    ELSE LET m == CHOOSE x \in S : \A y \in S : x <= y
         IN <<m>> \o ListOfSet(S \ {m})

\* Lists over S of length at most n (duplicates allowed).
SeqsUpTo(S, n) == UNION {[1..k -> S] : k \in 0..n}

\* ------------------------------------------------------------ the remote
\* What one HTTP GET of the detail endpoint can come back with.
ErrorResponses == {"rate_limited", "transport_error"}
FinalResponses == {"success_false", "success_data"}

\* Faulty variant: an unsuccessful payload raises like a transport error.
GetAppDetailsSingleRaisingOnAbsent(response) ==
    IF response = "success_data" THEN "record" ELSE "raise"

\* get_app_details_single: "raise" (exception), "empty" ({}) or "record".
GetAppDetailsSingle(response) ==
    CASE response = "rate_limited"       -> "raise"
      [] response = "transport_error"    -> "raise"
      [] response = "success_false"      -> "empty"
      [] response = "success_data"       -> "record"

\* One HTTP exchange in full. status 0: requests.get raised (no response);
\* body: what response.json() finds. An object body has at most one entry,
\* under str(key) (key 0: no entry), of the given shape.
HttpStatuses == {0, 200, 300, 404, 429, 500}
EntryShapes == {"null", "no_flag", "flag_false", "flag_true_no_data",
                "flag_true_empty_data", "flag_true_data"}
HttpBodies ==
    [kind : {"malformed", "not_object"}, key : {0}, entry : {"null"}]
    \cup [kind : {"object"}, key : {0}, entry : {"null"}]
    \cup [kind : {"object"}, key : Ids, entry : EntryShapes]
HttpResponses == [status : HttpStatuses, body : HttpBodies]

\* response.raise_for_status(): HTTPError for 400 <= status < 600.
RaiseForStatus(status) == 400 <= status /\ status < 600

\* data.get(str(app_id), {}) on an object body.
AppData(app_id, body) ==
    IF body.key # 0 /\ Str(body.key) = Str(app_id) THEN body.entry ELSE "no_flag"

\* get_app_details_single / _fetch_app_details_single on a full exchange:
\* "raise" (exception), "empty" ({}) or "record".
FetchAppDetailsSingle(app_id, response) ==
    IF response.status = 0 THEN "raise"                 \* requests.get raised
    ELSE IF response.status = 429 THEN "raise"          \* rate limited
    ELSE IF RaiseForStatus(response.status) THEN "raise"
    ELSE IF response.body.kind = "malformed" THEN "raise"   \* response.json()
    ELSE IF response.body.kind = "not_object" THEN "raise"  \* data.get
    ELSE LET app_data == AppData(app_id, response.body) IN
         IF app_data = "null" THEN "raise"              \* app_data.get
         ELSE IF app_data \in {"flag_true_no_data", "flag_true_empty_data",
                               "flag_true_data"}
              THEN \* app_data.get('data', {})
                   IF app_data = "flag_true_data" THEN "record" ELSE "empty"
              ELSE "empty"

\* The remote's answers to the requests of one resolve call: the first
\* `errs` requests get the response `err`, every later one gets `final`.
Scripts == [errs : 0..MaxErrs, err : ErrorResponses, final : FinalResponses]

ResponseAt(script, n) == IF n <= script.errs THEN script.err ELSE script.final

\* The retry decorator's loop around the single attempt:
\*   while tries: try: return f()  except: tries -= 1; if not tries: raise; sleep
\* `requests` counts the GETs issued, `errors` the exceptions caught.
RECURSIVE RetryInternal(_, _, _)
RetryInternal(script, tries, requests) ==
    LET got == GetAppDetailsSingle(ResponseAt(script, requests + 1)) IN
    IF got # "raise"
    THEN [value |-> got, requests |-> requests + 1, errors |-> requests]
    ELSE IF tries - 1 = 0
         THEN [value |-> "raise", requests |-> requests + 1, errors |-> requests + 1]
         ELSE RetryInternal(script, tries - 1, requests + 1)

\* Faulty variant: backoff is not applied, every sleep is the initial delay.
NextDelayWithoutBackoff(delay) == IF delay <= MaxDelay THEN delay ELSE MaxDelay

\* The decorator after a sleep: delay *= backoff; delay = min(delay, max_delay)
NextDelay(delay) ==
    IF delay * Backoff <= MaxDelay THEN delay * Backoff ELSE MaxDelay

\* The sleeps of the decorator's loop, in seconds: after a caught exception
\* with tries left it sleeps `delay` and raises the delay; after the
\* exception of the last try it re-raises without sleeping.
RECURSIVE RetrySleeps(_, _, _, _)
RetrySleeps(script, tries, delay, requests) ==
    IF GetAppDetailsSingle(ResponseAt(script, requests + 1)) # "raise" THEN <<>>
    ELSE IF tries - 1 = 0 THEN <<>>
    ELSE <<delay>> \o RetrySleeps(script, tries - 1, NextDelay(delay), requests + 1)

\* Faulty variant: the decorator is missing, one attempt only.
GetAppDetailsWithoutRetry(script) == RetryInternal(script, 1, 0)

GetAppDetailsWithRetry(script) == RetryInternal(script, Tries, 0)

\* Faulty variant: the exception of the last attempt is passed on.
GetAppDetailsReraising(script) ==
    LET r == GetAppDetailsWithRetry(script) IN
    [details |-> r.value, is_failure |-> r.value = "raise",
     requests |-> r.requests, errors |-> r.errors]

\* Faulty variant: the except branch returns ({}, False) like an absence.
GetAppDetailsSwallowingFailure(script) ==
    LET r == GetAppDetailsWithRetry(script) IN
    [details |-> IF r.value = "raise" THEN "empty" ELSE r.value,
     is_failure |-> FALSE, requests |-> r.requests, errors |-> r.errors]

\* get_app_details_with_failure_info: (record, is_failure)
GetAppDetailsWithFailureInfo(script) ==
    LET r == GetAppDetailsWithRetry(script) IN
    IF r.value = "raise"
    THEN [details |-> "empty", is_failure |-> TRUE,
          requests |-> r.requests, errors |-> r.errors]
    ELSE [details |-> r.value, is_failure |-> FALSE,
          requests |-> r.requests, errors |-> r.errors]

\* --------------------------------------------------- the persisted files
\* steam_apps_details.json: a JSON object, modelled by its key set.
\* failed_app_ids.json, failed_fetch_app_ids.json, non_existent_apps.json:
\* a JSON object holding the ID list and its count.
\* `malformed`: the bytes on disk do not parse as JSON (json.load raises
\* JSONDecodeError); keys / ids then tell what had been written.
NoDetailsFile == [exists |-> FALSE, malformed |-> FALSE, keys |-> {}]
NoIdsFile == [exists |-> FALSE, malformed |-> FALSE, ids |-> <<>>, count |-> 0]

\* Faulty variant: the file is never read, every run starts fresh.
LoadJsonFileStartingFresh(file) == {}

\* load_json_file: FileNotFoundError => {}; JSONDecodeError => {}; else the
\* object with the key updated_at popped.
LoadJsonFile(file) ==
    IF file.exists /\ ~file.malformed THEN file.keys \ {"updated_at"} ELSE {}

\* save_json_file: writes a copy of the map plus the key updated_at.
SaveJsonFile(data) ==
    [exists |-> TRUE, malformed |-> FALSE, keys |-> data \cup {"updated_at"}]

\* open(filename, 'w') truncated the file and json.dump was cut short: the
\* map's own keys are on disk, updated_at (added last) and the closing
\* brace are not.
TruncatedJsonFile(data) == [exists |-> TRUE, malformed |-> TRUE, keys |-> data]

\* Faulty variant: the except clauses are missing and whatever list the
\* file shows is used.
LoadIdsTrustingFile(file) == file.ids

\* load_failed_app_ids / load_non_existent_apps: FileNotFoundError => [];
\* JSONDecodeError => []; else the list under the file's key.
LoadIds(file) == IF file.exists /\ ~file.malformed THEN file.ids ELSE <<>>

\* save_failed_app_ids / save_non_existent_apps: overwrite with the list given.
SaveIds(ids) == [exists |-> TRUE, malformed |-> FALSE, ids |-> ids, count |-> Len(ids)]

\* The same write cut short: the list is on disk, count and the rest are not.
TruncatedIds(ids) == [exists |-> TRUE, malformed |-> TRUE, ids |-> ids, count |-> 0]

\* Faulty variant: existing + new is saved without going through set().
SaveIdsAppending(file, new_ids) == SaveIds(LoadIds(file) \o new_ids)

\* save_*_accumulative: load, list(set(existing + new)), save.
SaveIdsAccumulative(file, new_ids) ==
    SaveIds(ListOfSet(Range(LoadIds(file) \o new_ids)))

\* steam_apps_dict.json as load_steam_apps_dict returns it: the catalog's
\* keys in catalog order, then the key updated_at that save_json_file added.
AppsDict == [k \in 1..(MaxId + 1) |-> IF k <= MaxId THEN Str(k) ELSE "updated_at"]

\* validate_apps_locally: the work set.
RECURSIVE MissingApps(_, _, _, _)
MissingApps(keys, k, existing_details, non_existent_apps_set) ==
    IF k > Len(keys) THEN <<>>
    ELSE LET app_id == keys[k]
             rest == MissingApps(keys, k + 1, existing_details, non_existent_apps_set)
         IN IF app_id = "updated_at" THEN rest
            ELSE IF IntOf(app_id) \in non_existent_apps_set THEN rest
            ELSE IF app_id \notin existing_details THEN <<IntOf(app_id)>> \o rest
            ELSE rest

\* Faulty variant: non_existent_apps.json is not consulted.
ValidateAppsLocallyIgnoringAbsent(apps_dict, details, non_existent) ==
    MissingApps(apps_dict, 1, LoadJsonFile(details), {})

ValidateAppsLocally(apps_dict, details, non_existent) ==
    MissingApps(apps_dict, 1, LoadJsonFile(details), Range(LoadIds(non_existent)))

\* process_failed_apps_batch, lines 345-354: drop the IDs already in the map.
RECURSIVE FilterAppsForRetry(_, _, _)
FilterAppsForRetry(ids, k, details) ==
    IF k > Len(ids) THEN <<>>
    ELSE IF Str(ids[k]) \in details
         THEN FilterAppsForRetry(ids, k + 1, details)
         ELSE <<ids[k]>> \o FilterAppsForRetry(ids, k + 1, details)

\* Faulty variant: the membership test is missing.
NeverAlreadyExists(app_id, details) == FALSE

\* process_single_failed_app: "if app_id_str in all_app_details".
AlreadyExists(app_id, details) == Str(app_id) \in details

\* Faulty variant: is_failure is not looked at, every empty result is
\* filed as non-existent.
ProcessSingleAppMisfiling(app_id, r, details, failed, non_existent) ==
    IF r.details = "record"
    THEN [details |-> details \cup {Str(app_id)}, failed |-> failed,
          non_existent |-> non_existent]
    ELSE [details |-> details, failed |-> failed,
          non_existent |-> Append(non_existent, app_id)]

\* process_single_app / process_single_failed_app after the fetch returned.
ProcessSingleApp(app_id, r, details, failed, non_existent) ==
    IF r.details = "record"
    THEN [details |-> details \cup {Str(app_id)}, failed |-> failed,
          non_existent |-> non_existent]
    ELSE IF r.is_failure
    THEN [details |-> details, failed |-> Append(failed, app_id),
          non_existent |-> non_existent]
    ELSE [details |-> details, failed |-> failed,
          non_existent |-> Append(non_existent, app_id)]

\* The (record, is_failure) pair a resolve call returned, by its shape:
\* (non-empty, _) success, (empty, True) hard failure, (empty, False) absent.
Returned(r) ==
    IF r.details = "record" THEN "success"
    ELSE IF r.is_failure THEN "hard" ELSE "absent"

\* ------------------------------------------------------------------ state
VARIABLES
    details_file,        \* steam_apps_details.json
    non_existent_file,   \* non_existent_apps.json
    failed_file,         \* failed_app_ids.json
    failed_fetch_file,   \* failed_fetch_app_ids.json
    pc,                  \* where the running driver stands ("idle": none runs)
    mode,                \* which entry point is running
    app_ids,             \* the list the batch loop walks
    i,                   \* items of app_ids processed so far
    all_app_details,     \* in-memory Detail Map
    failed_app_ids,      \* in-flight failed list
    non_existent_apps,   \* in-flight non-existent list
    failed_input,        \* the failed list a sweep iteration was given
    loaded_details,      \* history: the Detail Map as loaded at the start
    outcome,             \* history: per ID, the results resolve returned in this run
    last,                \* history: the last resolve call of this run
    runs,                \* history: driver processes started so far
    skipped_checkpoint,  \* history: what a checkpoint with a write error held
    merge_file,          \* merge_ids alone: the persisted ID file
    merge_a,             \* merge_ids alone: batch A
    merge_b,             \* merge_ids alone: batch B
    merge_prev,          \* history: the IDs merge_file held at the start
    merge_applied,       \* history: how often each batch was merged
    call,                \* one function called alone: name, argument, result
    dag                  \* the DAG runs of the scheduler: per run, the task instances

files == <<details_file, non_existent_file, failed_file, failed_fetch_file>>
memory == <<app_ids, i, all_app_details, failed_app_ids, non_existent_apps, failed_input>>
history == <<loaded_details, outcome, last>>
Startable == pc = "idle" /\ runs < MaxRuns
merge_vars == <<merge_file, merge_a, merge_b, merge_prev, merge_applied>>
drivers == <<files, pc, mode, memory, history, runs, skipped_checkpoint>>
\* The variables of the functions followed alone.
alone_vars == <<merge_vars, call, dag>>
vars == <<files, pc, mode, memory, history, runs, skipped_checkpoint, alone_vars>>

NoOutcome == [id \in Ids |-> {}]
NoCall == [op |-> "none", arg |-> "none", done |-> FALSE, result |-> "none"]
NoDag == <<>>
NoSkippedCheckpoint == [status |-> "none", keys |-> {}, non_existent |-> {}, failed |-> {}]
NoLast == [id |-> 0, errs |-> 0, err |-> "none", final |-> "none",
           returned |-> "none", requests |-> 0]

\* The process holds nothing.
Fresh ==
    /\ app_ids' = <<>>
    /\ i' = 0
    /\ all_app_details' = {}
    /\ failed_app_ids' = <<>>
    /\ non_existent_apps' = <<>>
    /\ failed_input' = <<>>
    /\ loaded_details' = {}
    /\ outcome' = NoOutcome
    /\ last' = NoLast
    /\ skipped_checkpoint' = NoSkippedCheckpoint

\* No driver runs.
InitProcess ==
    /\ pc = "idle"
    /\ mode = "none"
    /\ app_ids = <<>>
    /\ i = 0
    /\ all_app_details = {}
    /\ failed_app_ids = <<>>
    /\ non_existent_apps = <<>>
    /\ failed_input = <<>>
    /\ loaded_details = {}
    /\ outcome = NoOutcome
    /\ last = NoLast
    /\ runs = 0
    /\ skipped_checkpoint = NoSkippedCheckpoint

\* No driver runs and the files are missing.
InitDrivers ==
    /\ details_file = NoDetailsFile
    /\ non_existent_file = NoIdsFile
    /\ failed_file = NoIdsFile
    /\ failed_fetch_file = NoIdsFile
    /\ InitProcess

Init ==
    /\ InitDrivers
    /\ merge_file = NoIdsFile
    /\ merge_a = <<>>
    /\ merge_b = <<>>
    /\ merge_prev = {}
    /\ merge_applied = [a |-> 0, b |-> 0]
    /\ call = NoCall
    /\ dag = NoDag

IsRetry == mode \in {"sweep", "retry_batch"}

\* Faulty variant: the loop never checkpoints.
AfterItemWithoutCheckpoint(done, ids) ==
    IF done = Len(ids) THEN "final_save" ELSE "process"

\* Where the batch loop goes after item `done` of `ids`.
AfterItem(done, ids) ==
    IF done % BatchSize = 0 THEN "checkpoint"
    ELSE IF done = Len(ids) THEN "final_save" ELSE "process"

\* Faulty variant: the lists start from the persisted ID sets.
BeginBatchFromPersistedSets(ids, m) ==
    /\ mode' = m
    /\ app_ids' = ids
    /\ i' = 0
    /\ all_app_details' = LoadJsonFile(details_file)
    /\ loaded_details' = LoadJsonFile(details_file)
    /\ failed_app_ids' = LoadIds(failed_file)
    /\ non_existent_apps' = LoadIds(non_existent_file)
    /\ outcome' = NoOutcome
    /\ last' = NoLast
    /\ skipped_checkpoint' = NoSkippedCheckpoint
    /\ pc' = IF Len(ids) = 0 THEN "final_save" ELSE "process"

\* fetch_all_app_details up to the loop: load the map, empty lists.
BeginBatch(ids, m) ==
    /\ mode' = m
    /\ app_ids' = ids
    /\ i' = 0
    /\ all_app_details' = LoadJsonFile(details_file)
    /\ loaded_details' = LoadJsonFile(details_file)
    /\ failed_app_ids' = <<>>
    /\ non_existent_apps' = <<>>
    /\ outcome' = NoOutcome
    /\ last' = NoLast
    /\ skipped_checkpoint' = NoSkippedCheckpoint
    /\ pc' = IF Len(ids) = 0 THEN "final_save" ELSE "process"

\* main_processing_workflow: work set, then run_fetch_phase on it.
RunWorkflow ==
    /\ pc = "idle"
    /\ UNCHANGED alone_vars
    /\ LET missing_app_ids == ValidateAppsLocally(AppsDict, details_file, non_existent_file)
       IN IF missing_app_ids = <<>>
          THEN \* run_fetch_phase returns {}, [], []; save_final_results writes nothing
               /\ Fresh
               /\ pc' = "done"
               /\ mode' = "workflow"
          ELSE /\ BeginBatch(missing_app_ids, "workflow")
               /\ failed_input' = <<>>
    /\ UNCHANGED files

\* One of the processes the model follows runs main.py.
MainProcessingWorkflow ==
    /\ Startable
    /\ runs' = runs + 1
    /\ RunWorkflow

\* fetch_all_app_details called with a list of the caller's choice.
FetchAllAppDetails ==
    /\ Startable
    /\ runs' = runs + 1
    /\ UNCHANGED alone_vars
    /\ \E ids \in SeqsUpTo(Ids, MaxInput) : BeginBatch(ids, "fetch")
    /\ failed_input' = <<>>
    /\ UNCHANGED files

\* Faulty variant: the loop counter is handed on in place of the ID.
CurrentItemLoopCounter == i + 1

\* for i, app_id in enumerate(app_ids, 1): the app_id of the next pass.
CurrentItem == app_ids[i + 1]

\* One pass of the batch loop body: process_single_app (main.py) or
\* process_single_failed_app (retry_failed_apps.py) on the next item.
ProcessAppWith(scripts) ==
    /\ pc = "process"
    /\ LET app_id == CurrentItem IN
       IF IsRetry /\ AlreadyExists(app_id, all_app_details)
       THEN \* already in the map: return without fetching
            /\ last' = [id |-> app_id, errs |-> 0, err |-> "none", final |-> "none",
                        returned |-> "skipped", requests |-> 0]
            /\ UNCHANGED <<all_app_details, failed_app_ids, non_existent_apps, outcome>>
       ELSE \E script \in scripts :
            LET r == GetAppDetailsWithFailureInfo(script)
                new == ProcessSingleApp(app_id, r, all_app_details,
                                        failed_app_ids, non_existent_apps)
            IN /\ all_app_details' = new.details
               /\ failed_app_ids' = new.failed
               /\ non_existent_apps' = new.non_existent
               /\ outcome' = [outcome EXCEPT ![app_id] = @ \cup {Returned(r)}]
               /\ last' = [id |-> app_id, errs |-> script.errs,
                           err |-> IF script.errs > 0 THEN script.err ELSE "none",
                           final |-> script.final,
                           returned |-> Returned(r), requests |-> r.requests]
    /\ i' = i + 1
    /\ pc' = AfterItem(i + 1, app_ids)
    /\ UNCHANGED <<files, mode, app_ids, failed_input, loaded_details>>
    /\ UNCHANGED <<runs, skipped_checkpoint, alone_vars>>

\* Faulty variant: a hard failure ends the loop.
ProcessAppBreakingOnFailure ==
    \/ ProcessAppWith(Scripts) /\ last'.returned # "hard"
    \/ /\ pc = "process"
       /\ ~(IsRetry /\ AlreadyExists(app_ids[i + 1], all_app_details))
       /\ \E script \in Scripts :
             LET r == GetAppDetailsWithFailureInfo(script) IN
             /\ Returned(r) = "hard"
             /\ last' = [id |-> app_ids[i + 1], errs |-> script.errs, err |-> script.err,
                         final |-> script.final, returned |-> "hard",
                         requests |-> r.requests]
       /\ failed_app_ids' = Append(failed_app_ids, app_ids[i + 1])
       /\ outcome' = [outcome EXCEPT ![app_ids[i + 1]] = @ \cup {"hard"}]
       /\ i' = i + 1
       /\ pc' = "final_save"
       /\ UNCHANGED <<all_app_details, non_existent_apps>>
       /\ UNCHANGED <<files, mode, app_ids, failed_input, loaded_details>>
       /\ UNCHANGED <<runs, skipped_checkpoint, alone_vars>>

\* The remote answers in any of the ways the model knows.
ProcessApp == ProcessAppWith(Scripts)

\* save_intermediate_results of main.py: map overwritten, both lists merged.
SaveIntermediateResultsMain ==
    /\ details_file' = SaveJsonFile(all_app_details)
    /\ IF Len(non_existent_apps) > 0
       THEN non_existent_file' = SaveIdsAccumulative(non_existent_file, non_existent_apps)
       ELSE UNCHANGED non_existent_file
    /\ IF Len(failed_app_ids) > 0
       THEN failed_file' = SaveIdsAccumulative(failed_file, failed_app_ids)
       ELSE UNCHANGED failed_file
    /\ UNCHANGED failed_fetch_file

\* save_intermediate_results of retry_failed_apps.py: map overwritten,
\* non-existent list merged, failed list written with save_failed_app_ids.
SaveIntermediateResultsRetry ==
    /\ details_file' = SaveJsonFile(all_app_details)
    /\ IF Len(non_existent_apps) > 0
       THEN non_existent_file' = SaveIdsAccumulative(non_existent_file, non_existent_apps)
       ELSE UNCHANGED non_existent_file
    /\ IF Len(failed_app_ids) > 0
       THEN failed_fetch_file' = SaveIds(failed_app_ids)
       ELSE UNCHANGED failed_fetch_file
    /\ UNCHANGED failed_file

\* A save went through: what a checkpoint with a write error held is
\* written again.
Persisted ==
    skipped_checkpoint' = IF skipped_checkpoint.status = "failed"
                          THEN [skipped_checkpoint EXCEPT !.status = "retried"]
                          ELSE skipped_checkpoint

\* if i % batch_size == 0: save_intermediate_results(...)
Checkpoint ==
    /\ pc = "checkpoint"
    /\ IF IsRetry THEN SaveIntermediateResultsRetry ELSE SaveIntermediateResultsMain
    /\ pc' = IF i = Len(app_ids) THEN "final_save" ELSE "process"
    /\ UNCHANGED <<mode, memory, history>>
    /\ UNCHANGED <<runs, alone_vars>>
    /\ Persisted

\* The save_json_file that ends fetch_all_app_details and
\* process_failed_apps_batch.
FinalSave ==
    /\ pc = "final_save"
    /\ details_file' = SaveJsonFile(all_app_details)
    /\ pc' = CASE mode = "workflow" -> "run_fetch_phase"
               [] mode = "sweep" -> "sweep_save"
               [] OTHER -> "done"
    /\ UNCHANGED <<non_existent_file, failed_file, failed_fetch_file, mode, memory, history>>
    /\ UNCHANGED <<runs, skipped_checkpoint, alone_vars>>

\* run_fetch_phase after fetch_all_app_details returned.
RunFetchPhaseSave ==
    /\ pc = "run_fetch_phase"
    /\ IF failed_app_ids # <<>>
       THEN failed_fetch_file' = SaveIds(failed_app_ids)
       ELSE UNCHANGED failed_fetch_file
    /\ IF non_existent_apps # <<>>
       THEN non_existent_file' = SaveIds(non_existent_apps)
       ELSE UNCHANGED non_existent_file
    /\ pc' = "save_final_results"
    /\ UNCHANGED <<details_file, failed_file, mode, memory, history>>
    /\ UNCHANGED <<runs, skipped_checkpoint, alone_vars>>

\* save_final_results
SaveFinalResults ==
    /\ pc = "save_final_results"
    /\ IF failed_app_ids # <<>>
       THEN failed_file' = SaveIds(failed_app_ids)
       ELSE UNCHANGED failed_file
    /\ IF non_existent_apps # <<>>
       THEN non_existent_file' = SaveIds(non_existent_apps)
       ELSE UNCHANGED non_existent_file
    /\ pc' = "done"
    /\ UNCHANGED <<details_file, failed_fetch_file, mode, memory, history>>
    /\ UNCHANGED <<runs, alone_vars>>
    /\ Persisted

\* The entry point returned; the process ends.
Exit ==
    /\ pc = "done"
    /\ pc' = "idle"
    /\ mode' = "none"
    /\ Fresh
    /\ UNCHANGED files
    /\ UNCHANGED <<runs, alone_vars>>

\* KeyboardInterrupt, caught by main_processing_workflow / main: the process
\* ends with whatever the files hold.
Interrupt ==
    /\ pc \notin {"idle", "done"}
    /\ pc' = "idle"
    /\ mode' = "none"
    /\ Fresh
    /\ UNCHANGED files
    /\ UNCHANGED <<runs, alone_vars>>

\* process_failed_apps_batch up to the loop: load the map, filter the list.
BeginRetryBatch(ids, m, empty_pc) ==
    LET details == LoadJsonFile(details_file)
        apps_to_process == FilterAppsForRetry(ids, 1, details)
    IN /\ mode' = m
       /\ failed_input' = ids
       /\ app_ids' = apps_to_process
       /\ i' = 0
       /\ all_app_details' = details
       /\ loaded_details' = details
       /\ failed_app_ids' = <<>>
       /\ non_existent_apps' = <<>>
       /\ outcome' = NoOutcome
       /\ last' = NoLast
       /\ skipped_checkpoint' = NoSkippedCheckpoint
       /\ pc' = IF Len(apps_to_process) = 0 THEN empty_pc ELSE "process"

\* retry_failed_apps_loop is entered.
StartRetryLoop ==
    /\ Startable
    /\ runs' = runs + 1
    /\ UNCHANGED alone_vars
    /\ pc' = "sweep_top"
    /\ mode' = "sweep"
    /\ Fresh
    /\ UNCHANGED files

\* Top of the while loop: load the failed list; stop if it is empty,
\* else call process_failed_apps_batch on it.
RetryLoopLoad ==
    /\ pc = "sweep_top"
    /\ LET loaded == LoadIds(failed_fetch_file) IN
       IF loaded = <<>>
       THEN /\ pc' = "done"
            /\ mode' = "sweep"
            /\ Fresh
       ELSE BeginRetryBatch(loaded, "sweep", "sweep_save")
    /\ UNCHANGED files
    /\ UNCHANGED <<runs, alone_vars>>

\* Faulty variant: with nothing left to retry the loop is left at once and
\* the file is not cleared.
RetryLoopSaveBreakingOut ==
    /\ pc = "sweep_save"
    /\ IF non_existent_apps # <<>>
       THEN non_existent_file' = SaveIdsAccumulative(non_existent_file, non_existent_apps)
       ELSE UNCHANGED non_existent_file
    /\ IF failed_app_ids # <<>>
       THEN failed_fetch_file' = SaveIds(failed_app_ids) /\ pc' = "sweep_wait"
       ELSE UNCHANGED failed_fetch_file /\ pc' = "done"
    /\ UNCHANGED <<details_file, failed_file, mode, memory, history>>
    /\ UNCHANGED <<runs, alone_vars>>
    /\ Persisted

\* Faulty variant: the loop ends when an iteration resolved nothing.
RetryLoopSaveWithStagnationGuard ==
    /\ pc = "sweep_save"
    /\ IF non_existent_apps # <<>>
       THEN non_existent_file' = SaveIdsAccumulative(non_existent_file, non_existent_apps)
       ELSE UNCHANGED non_existent_file
    /\ failed_fetch_file' = SaveIds(failed_app_ids)
    /\ pc' = IF failed_app_ids = <<>> THEN "sweep_top"
             ELSE IF Len(failed_app_ids) = Len(failed_input) THEN "done"
             ELSE "sweep_wait"
    /\ UNCHANGED <<details_file, failed_file, mode, memory, history>>
    /\ UNCHANGED <<runs, alone_vars>>
    /\ Persisted

\* Faulty variant: the list the iteration loaded is written back.
RetryLoopSaveKeepingInput ==
    /\ pc = "sweep_save"
    /\ IF non_existent_apps # <<>>
       THEN non_existent_file' = SaveIdsAccumulative(non_existent_file, non_existent_apps)
       ELSE UNCHANGED non_existent_file
    /\ failed_fetch_file' = SaveIds(failed_input)
    /\ pc' = IF failed_app_ids # <<>> THEN "sweep_wait" ELSE "sweep_top"
    /\ UNCHANGED <<details_file, failed_file, mode, memory, history>>
    /\ UNCHANGED <<runs, alone_vars>>
    /\ Persisted

\* Faulty variant: the failed list is merged into the file, not written over it.
RetryLoopSaveUnion ==
    /\ pc = "sweep_save"
    /\ IF non_existent_apps # <<>>
       THEN non_existent_file' = SaveIdsAccumulative(non_existent_file, non_existent_apps)
       ELSE UNCHANGED non_existent_file
    /\ failed_fetch_file' = SaveIdsAccumulative(failed_fetch_file, failed_app_ids)
    /\ pc' = IF failed_app_ids # <<>> THEN "sweep_wait" ELSE "sweep_top"
    /\ UNCHANGED <<details_file, failed_file, mode, memory, history>>
    /\ UNCHANGED <<runs, alone_vars>>
    /\ Persisted

\* Faulty variant: the wait is slept after every iteration.
RetryLoopSaveAlwaysWaiting ==
    /\ pc = "sweep_save"
    /\ IF non_existent_apps # <<>>
       THEN non_existent_file' = SaveIdsAccumulative(non_existent_file, non_existent_apps)
       ELSE UNCHANGED non_existent_file
    /\ failed_fetch_file' = SaveIds(failed_app_ids)
    /\ pc' = "sweep_wait"
    /\ UNCHANGED <<details_file, failed_file, mode, memory, history>>
    /\ UNCHANGED <<runs, alone_vars>>
    /\ Persisted

\* Bottom of the while loop: merge the non-existent list, overwrite the
\* failed list (with [] when nothing failed).
RetryLoopSave ==
    /\ pc = "sweep_save"
    /\ IF non_existent_apps # <<>>
       THEN non_existent_file' = SaveIdsAccumulative(non_existent_file, non_existent_apps)
       ELSE UNCHANGED non_existent_file
    /\ failed_fetch_file' = SaveIds(failed_app_ids)
    /\ pc' = IF failed_app_ids # <<>> THEN "sweep_wait" ELSE "sweep_top"
    /\ UNCHANGED <<details_file, failed_file, mode, memory, history>>
    /\ UNCHANGED <<runs, alone_vars>>
    /\ Persisted

\* time.sleep(5) between iterations
RetryLoopWait ==
    /\ pc = "sweep_wait"
    /\ pc' = "sweep_top"
    /\ UNCHANGED <<files, mode, memory, history>>
    /\ UNCHANGED <<runs, skipped_checkpoint, alone_vars>>

\* process_failed_apps_batch called with a list of the caller's choice.
ProcessFailedAppsBatch ==
    /\ Startable
    /\ runs' = runs + 1
    /\ UNCHANGED alone_vars
    /\ \E ids \in SeqsUpTo(Ids, MaxRetryInput) : BeginRetryBatch(ids, "retry_batch", "done")
    /\ UNCHANGED files

Next ==
    \/ MainProcessingWorkflow
    \/ FetchAllAppDetails
    \/ ProcessApp
    \/ Checkpoint
    \/ FinalSave
    \/ RunFetchPhaseSave
    \/ SaveFinalResults
    \/ Exit
    \/ Interrupt
    \/ StartRetryLoop
    \/ RetryLoopLoad
    \/ RetryLoopSave
    \/ RetryLoopWait
    \/ ProcessFailedAppsBatch

Spec == Init /\ [][Next]_vars

\* The two programs as their entry points run them: main.py's
\* main_processing_workflow and retry_failed_apps.py's main, one process
\* after another on the same files.
NextPrograms ==
    \/ MainProcessingWorkflow
    \/ ProcessApp
    \/ Checkpoint
    \/ FinalSave
    \/ RunFetchPhaseSave
    \/ SaveFinalResults
    \/ Exit
    \/ Interrupt
    \/ StartRetryLoop
    \/ RetryLoopLoad
    \/ RetryLoopSave
    \/ RetryLoopWait

SpecPrograms == Init /\ [][NextPrograms]_vars

\* An interrupt or crash while save_json_file is inside json.dump: the
\* checkpoint and the final save both start with this write.
InterruptInSaveJsonFile ==
    /\ pc \in {"checkpoint", "final_save"}
    /\ details_file' = TruncatedJsonFile(all_app_details)
    /\ pc' = "idle"
    /\ mode' = "none"
    /\ Fresh
    /\ UNCHANGED <<non_existent_file, failed_file, failed_fetch_file>>
    /\ UNCHANGED <<runs, alone_vars>>

\* An interrupt or crash while save_failed_app_ids / save_non_existent_apps
\* is inside json.dump, taken at the first ID-file write of run_fetch_phase
\* and of the retry loop's end-of-iteration save.
InterruptInSaveIds ==
    /\ \/ /\ pc = "run_fetch_phase"
          /\ failed_app_ids # <<>>
          /\ failed_fetch_file' = TruncatedIds(failed_app_ids)
          /\ UNCHANGED non_existent_file
       \/ /\ pc = "run_fetch_phase"
          /\ failed_app_ids = <<>>
          /\ non_existent_apps # <<>>
          /\ non_existent_file' = TruncatedIds(non_existent_apps)
          /\ UNCHANGED failed_fetch_file
       \/ /\ pc = "sweep_save"
          /\ non_existent_apps # <<>>
          /\ non_existent_file' =
                 TruncatedIds(SaveIdsAccumulative(non_existent_file, non_existent_apps).ids)
          /\ UNCHANGED failed_fetch_file
       \/ /\ pc = "sweep_save"
          /\ non_existent_apps = <<>>
          /\ failed_fetch_file' = TruncatedIds(failed_app_ids)
          /\ UNCHANGED non_existent_file
    /\ pc' = "idle"
    /\ mode' = "none"
    /\ Fresh
    /\ UNCHANGED <<details_file, failed_file>>
    /\ UNCHANGED <<runs, alone_vars>>

\* The two programs, with interrupts also landing inside a file write.
NextCrash ==
    \/ NextPrograms
    \/ InterruptInSaveJsonFile
    \/ InterruptInSaveIds

SpecCrash == Init /\ [][NextCrash]_vars

\* ------------------------------------------- repeated workflow runs
\* main.py run again and again (scheduler or operator) against a remote on
\* which every resolve ends in SUCCESS or ABSENT.
ResolvingScripts ==
    {script \in Scripts :
        Returned(GetAppDetailsWithFailureInfo(script)) \in {"success", "absent"}}

RerunWorkflow ==
    /\ UNCHANGED runs
    /\ RunWorkflow

ProcessAppResolving == ProcessAppWith(ResolvingScripts)

\* Ctrl-C right after a checkpoint returned.
InterruptAfterCheckpoint ==
    /\ pc \in {"process", "final_save"}
    /\ i > 0
    /\ i % BatchSize = 0
    /\ Interrupt

ConvergeStep ==
    \/ RerunWorkflow
    \/ ProcessAppResolving
    \/ Checkpoint
    \/ FinalSave
    \/ RunFetchPhaseSave
    \/ SaveFinalResults
    \/ Exit

NextConverge ==
    \/ ConvergeStep
    \/ InterruptAfterCheckpoint

\* A started run goes on unless interrupted, and runs keep being started.
SpecConverge == Init /\ [][NextConverge]_vars /\ WF_vars(ConvergeStep)

\* ------------------------------------------------- sweep, fair remote
\* What save_ids leaves for a list: no file when run_fetch_phase and
\* save_final_results skipped the empty list.
SavedIfAny(ids) == IF ids = <<>> THEN NoIdsFile ELSE SaveIds(ids)

\* The files a completed first workflow run leaves (run_fetch_phase,
\* save_final_results): every catalog ID found, absent or hard-failed.
InitSweep ==
    /\ InitProcess
    /\ \E found, absent \in SUBSET Ids :
          /\ found \cap absent = {}
          /\ details_file = SaveJsonFile({Str(id) : id \in found})
          /\ non_existent_file = SavedIfAny(ListOfSet(absent))
          /\ failed_file = SavedIfAny(ListOfSet(Ids \ (found \cup absent)))
          /\ failed_fetch_file = SavedIfAny(ListOfSet(Ids \ (found \cup absent)))
    /\ merge_file = NoIdsFile
    /\ merge_a = <<>>
    /\ merge_b = <<>>
    /\ merge_prev = {}
    /\ merge_applied = [a |-> 0, b |-> 0]
    /\ call = NoCall
    /\ dag = NoDag

\* The sweep, not interrupted.
SweepStep ==
    \/ ProcessApp
    \/ Checkpoint
    \/ FinalSave
    \/ Exit
    \/ RetryLoopLoad
    \/ RetryLoopSave
    \/ RetryLoopWait

NextSweepFair ==
    \/ StartRetryLoop
    \/ SweepStep

\* A running driver goes on, and a remote that is asked again and again
\* answers some of the resolves with SUCCESS or ABSENT.
SpecSweepFair ==
    /\ InitSweep
    /\ [][NextSweepFair]_vars
    /\ WF_vars(SweepStep)
    /\ SF_vars(ProcessAppResolving)

\* ------------------------------------------- sweep, stubborn remote
\* The sweep against a remote on which one app never resolves.
Stubborn == 1

\* The files a completed first workflow run leaves when the app hard-failed.
InitStubborn ==
    /\ InitSweep
    /\ Stubborn \in Range(LoadIds(failed_fetch_file))

ProcessAppStubborn ==
    /\ ProcessApp
    /\ last'.id = Stubborn => last'.returned = "hard"

NextStubborn ==
    \/ StartRetryLoop
    \/ RetryLoopLoad
    \/ ProcessAppStubborn
    \/ Checkpoint
    \/ FinalSave
    \/ RetryLoopSave
    \/ RetryLoopWait

SpecStubborn == InitStubborn /\ [][NextStubborn]_vars

\* ------------------------------------------- sweep on stale files
\* The files two workflow runs leave: the first wrote its hard failures to
\* failed_fetch_app_ids.json, the second resolved some of them and, having
\* no hard failure of its own, left that file as it was.
InitStale ==
    /\ InitProcess
    /\ \E found, absent, failed \in SUBSET Ids :
          /\ found \cap absent = {}
          /\ details_file = SaveJsonFile({Str(id) : id \in found})
          /\ non_existent_file = SavedIfAny(ListOfSet(absent))
          /\ failed_file = SavedIfAny(ListOfSet(failed))
          /\ failed_fetch_file = SavedIfAny(ListOfSet(failed))
    /\ merge_file = NoIdsFile
    /\ merge_a = <<>>
    /\ merge_b = <<>>
    /\ merge_prev = {}
    /\ merge_applied = [a |-> 0, b |-> 0]
    /\ call = NoCall
    /\ dag = NoDag

SpecStale == InitStale /\ [][NextSweepFair]_vars

\* The figures of the iteration summary of retry_failed_apps_loop.
IterationProcessed == Len(failed_input)
IterationSuccessful == Len(failed_input) - Len(failed_app_ids) - Len(non_existent_apps)

\* new_added of process_failed_apps_batch: final_count - initial_count.
NewAdded == Cardinality(all_app_details) - Cardinality(loaded_details)

\* ------------------------------------------------- write errors
\* What open(filename, 'w') and json.dump leave behind when they raise
\* IOError: the old file (open failed) or a partial one (the write failed).
FailedWrites(file, partial) == {file, partial}

\* save_json_file: the IOError is caught and False returned.
WriteJsonFile(ok, file, data) ==
    IF ok THEN {SaveJsonFile(data)} ELSE FailedWrites(file, TruncatedJsonFile(data))

\* save_*_accumulative: load, merge, save; the IOError of the save is caught.
WriteIdsAccumulative(ok, file, ids) ==
    IF ids = <<>> THEN {file}
    ELSE IF ok THEN {SaveIdsAccumulative(file, ids)}
    ELSE FailedWrites(file, TruncatedIds(SaveIdsAccumulative(file, ids).ids))

\* save_failed_app_ids: the IOError is caught.
WriteIds(ok, file, ids) ==
    IF ids = <<>> THEN {file}
    ELSE IF ok THEN {SaveIds(ids)}
    ELSE FailedWrites(file, TruncatedIds(ids))

\* The writes of a checkpoint, each going through or not.
CheckpointWrites(ok_details, ok_non_existent, ok_failed) ==
    /\ details_file' \in WriteJsonFile(ok_details, details_file, all_app_details)
    /\ non_existent_file' \in
          WriteIdsAccumulative(ok_non_existent, non_existent_file, non_existent_apps)
    /\ IF IsRetry
       THEN /\ failed_fetch_file' \in WriteIds(ok_failed, failed_fetch_file, failed_app_ids)
            /\ UNCHANGED failed_file
       ELSE /\ failed_file' \in WriteIdsAccumulative(ok_failed, failed_file, failed_app_ids)
            /\ UNCHANGED failed_fetch_file

\* Some write of the checkpoint raised IOError.
SomeWriteFailed(ok_details, ok_non_existent, ok_failed) ==
    \/ ~ok_details
    \/ ~ok_non_existent /\ non_existent_apps # <<>>
    \/ ~ok_failed /\ failed_app_ids # <<>>

HeldByCheckpoint ==
    [status |-> "failed", keys |-> all_app_details,
     non_existent |-> Range(non_existent_apps), failed |-> Range(failed_app_ids)]

\* Faulty variant: the IOError is not caught and ends the process.
CheckpointWriteErrorAborting ==
    /\ pc = "checkpoint"
    /\ \E ok_details, ok_non_existent, ok_failed \in BOOLEAN :
          /\ SomeWriteFailed(ok_details, ok_non_existent, ok_failed)
          /\ CheckpointWrites(ok_details, ok_non_existent, ok_failed)
    /\ skipped_checkpoint' = HeldByCheckpoint
    /\ pc' = "idle"
    /\ mode' = "none"
    /\ app_ids' = <<>> /\ i' = 0 /\ all_app_details' = {}
    /\ failed_app_ids' = <<>> /\ non_existent_apps' = <<>> /\ failed_input' = <<>>
    /\ loaded_details' = {} /\ outcome' = NoOutcome /\ last' = NoLast
    /\ UNCHANGED <<runs, alone_vars>>

\* save_intermediate_results with an IOError in at least one of its writes:
\* each is caught inside its save function and the loop goes on.
CheckpointWriteError ==
    /\ pc = "checkpoint"
    /\ \E ok_details, ok_non_existent, ok_failed \in BOOLEAN :
          /\ SomeWriteFailed(ok_details, ok_non_existent, ok_failed)
          /\ CheckpointWrites(ok_details, ok_non_existent, ok_failed)
    /\ skipped_checkpoint' = HeldByCheckpoint
    /\ pc' = IF i = Len(app_ids) THEN "final_save" ELSE "process"
    /\ UNCHANGED <<mode, memory, history>>
    /\ UNCHANGED <<runs, alone_vars>>

NextWriteError ==
    \/ NextPrograms
    \/ CheckpointWriteError

SpecWriteError == Init /\ [][NextWriteError]_vars

\* ------------------------------------------- the client's calls alone
\* get_app_details_single on an exchange of the caller's choice, and
\* get_app_details_with_failure_info on a script of the caller's choice.
InitCalls ==
    /\ InitDrivers
    /\ merge_file = NoIdsFile
    /\ merge_a = <<>>
    /\ merge_b = <<>>
    /\ merge_prev = {}
    /\ merge_applied = [a |-> 0, b |-> 0]
    /\ dag = NoDag
    /\ \/ call \in [op : {"get_app_details_single"},
                     arg : [app_id : Ids, response : HttpResponses],
                     done : {FALSE}, result : {"none"}]
       \/ call \in [op : {"get_app_details_with_failure_info"},
                     arg : Scripts, done : {FALSE}, result : {"none"}]
       \/ call \in [op : {"get_app_details_with_retry"},
                     arg : Scripts, done : {FALSE}, result : {"none"}]

CallGetAppDetailsSingle ==
    /\ call.op = "get_app_details_single"
    /\ ~call.done
    /\ call' = [call EXCEPT
                   !.done = TRUE,
                   !.result = FetchAppDetailsSingle(call.arg.app_id, call.arg.response)]
    /\ UNCHANGED <<drivers, merge_vars, dag>>

CallGetAppDetailsWithFailureInfo ==
    /\ call.op = "get_app_details_with_failure_info"
    /\ ~call.done
    /\ call' = [call EXCEPT !.done = TRUE,
                            !.result = GetAppDetailsWithFailureInfo(call.arg)]
    /\ UNCHANGED <<drivers, merge_vars, dag>>

\* get_app_details_with_retry: what it returned or raised, and the sleeps
\* of the decorator on the way.
CallGetAppDetailsWithRetry ==
    /\ call.op = "get_app_details_with_retry"
    /\ ~call.done
    /\ call' = [call EXCEPT
                   !.done = TRUE,
                   !.result = [returned |-> GetAppDetailsWithRetry(call.arg),
                               sleeps |-> RetrySleeps(call.arg, Tries, Delay, 0)]]
    /\ UNCHANGED <<drivers, merge_vars, dag>>

NextCalls ==
    \/ CallGetAppDetailsSingle
    \/ CallGetAppDetailsWithFailureInfo
    \/ CallGetAppDetailsWithRetry

SpecCalls == InitCalls /\ [][NextCalls]_vars

\* ------------------------------------------ pacing of the batch loop
\* The loop of fetch_all_app_details / _process_app_batch followed event
\* by event on a list of the caller's choice: call.result holds the loop
\* counter i, the statement the loop stands at and the log of what it did
\* (request sent, response received, delay sleep, checkpoint).
LoopEvent(e, k) == [e |-> e, i |-> k]

InitPacing ==
    /\ InitDrivers
    /\ merge_file = NoIdsFile
    /\ merge_a = <<>>
    /\ merge_b = <<>>
    /\ merge_prev = {}
    /\ merge_applied = [a |-> 0, b |-> 0]
    /\ dag = NoDag
    /\ call \in [op : {"process_app_batch"}, arg : SeqsUpTo(Ids, MaxBatch),
                  done : {FALSE}, result : {[i |-> 0, at |-> "for", log |-> <<>>]}]

PacingStep(at, k, log) ==
    /\ call' = [call EXCEPT !.result = [i |-> k, at |-> at, log |-> log]]
    /\ UNCHANGED <<drivers, merge_vars, dag>>

\* for i, app_id in enumerate(app_ids, 1): process_single_app is entered
\* and sends its request.
LoopProcessSingleApp ==
    /\ call.op = "process_app_batch"
    /\ call.result.at = "for"
    /\ call.result.i < Len(call.arg)
    /\ PacingStep("process_single_app", call.result.i + 1,
                  Append(call.result.log, LoopEvent("request", call.result.i + 1)))

\* Faulty variant: the delay is slept after the last item too.
AfterProcessSingleAppAlwaysSleeping(k, total_apps) == "sleep"

\* if i < total_apps: time.sleep(delay_between_requests)
AfterProcessSingleApp(k, total_apps) ==
    IF k < total_apps THEN "sleep" ELSE "checkpoint"

\* process_single_app returns: the call is synchronous, the loop goes on
\* only now.
LoopProcessSingleAppReturns ==
    /\ call.op = "process_app_batch"
    /\ call.result.at = "process_single_app"
    /\ PacingStep(AfterProcessSingleApp(call.result.i, Len(call.arg)), call.result.i,
                  Append(call.result.log, LoopEvent("response", call.result.i)))

\* time.sleep(delay_between_requests)
LoopSleep ==
    /\ call.op = "process_app_batch"
    /\ call.result.at = "sleep"
    /\ PacingStep("checkpoint", call.result.i,
                  Append(call.result.log, LoopEvent("sleep", call.result.i)))

\* if i % batch_size == 0: save_intermediate_results(...)
LoopCheckpoint ==
    /\ call.op = "process_app_batch"
    /\ call.result.at = "checkpoint"
    /\ PacingStep("for", call.result.i,
                  IF call.result.i % BatchSize = 0
                  THEN Append(call.result.log, LoopEvent("checkpoint", call.result.i))
                  ELSE call.result.log)

\* The list is exhausted: the loop ends.
LoopEnd ==
    /\ call.op = "process_app_batch"
    /\ ~call.done
    /\ call.result.at = "for"
    /\ call.result.i = Len(call.arg)
    /\ call' = [call EXCEPT !.done = TRUE]
    /\ UNCHANGED <<drivers, merge_vars, dag>>

NextPacing ==
    \/ LoopProcessSingleApp
    \/ LoopProcessSingleAppReturns
    \/ LoopSleep
    \/ LoopCheckpoint
    \/ LoopEnd

SpecPacing == InitPacing /\ [][NextPacing]_vars

\* ------------------------------------- save_json_file, load_json_file
\* save_json_file called on a map of the caller's choice over a file as a
\* driver left it, then load_json_file on what the save left.

\* Faulty variant: the timestamp is set on the caller's dict.
DataAfterSaveInPlace(data) == data \cup {"updated_at"}

\* data_with_timestamp = data.copy(); data_with_timestamp['updated_at'] = ...:
\* the caller's dict after the call.
DataAfterSave(data) == data

InitRoundTrip ==
    /\ InitProcess
    /\ \E found \in SUBSET Ids :
          details_file \in {NoDetailsFile,
                            SaveJsonFile({Str(id) : id \in found}),
                            TruncatedJsonFile({Str(id) : id \in found})}
    /\ non_existent_file = NoIdsFile
    /\ failed_file = NoIdsFile
    /\ failed_fetch_file = NoIdsFile
    /\ merge_file = NoIdsFile
    /\ merge_a = <<>>
    /\ merge_b = <<>>
    /\ merge_prev = {}
    /\ merge_applied = [a |-> 0, b |-> 0]
    /\ dag = NoDag
    /\ \E data \in SUBSET ({Str(id) : id \in Ids} \cup {"updated_at"}) :
          call = [op |-> "save_json_file", arg |-> data, done |-> FALSE,
                  result |-> [at |-> "called", saved |-> FALSE, data |-> data,
                              loaded |-> {}]]

\* save_json_file(data, filename): True, or False on IOError.
CallSaveJsonFile ==
    /\ call.op = "save_json_file"
    /\ call.result.at = "called"
    /\ \E ok \in BOOLEAN :
          /\ details_file' \in WriteJsonFile(ok, details_file, call.arg)
          /\ call' = [call EXCEPT !.result = [at |-> "saved", saved |-> ok,
                                              data |-> DataAfterSave(call.arg),
                                              loaded |-> {}]]
    /\ UNCHANGED <<non_existent_file, failed_file, failed_fetch_file>>
    /\ UNCHANGED <<pc, mode, memory, history, runs, skipped_checkpoint, merge_vars, dag>>

\* load_json_file(filename)
CallLoadJsonFile ==
    /\ call.op = "save_json_file"
    /\ call.result.at = "saved"
    /\ call' = [call EXCEPT !.done = TRUE,
                            !.result.at = "loaded",
                            !.result.loaded = LoadJsonFile(details_file)]
    /\ UNCHANGED <<drivers, merge_vars, dag>>

NextRoundTrip ==
    \/ CallSaveJsonFile
    \/ CallLoadJsonFile

SpecRoundTrip == InitRoundTrip /\ [][NextRoundTrip]_vars

\* ------------------------------------------------ the production DAG
\* steam_games_dag.py as the Airflow scheduler runs it: DAG runs are
\* created on schedule, a task instance starts when its upstream tasks
\* succeeded and the DAG's limits allow it, and a failed one is retried
\* `retries` times.
Tasks == {"start_pipeline", "extract_steam_data", "process_steam_data",
          "save_to_json", "retry_failed_extractions", "load_to_mongodb",
          "end_pipeline"}

DummyTasks == {"start_pipeline", "end_pipeline"}

\* start_pipeline >> extract_steam_data >> process_steam_data_task >> save_to_json
\* save_to_json >> [retry_failed_extractions, load_to_mongodb] >> end_pipeline
Upstream(task) ==
    CASE task = "start_pipeline" -> {}
      [] task = "extract_steam_data" -> {"start_pipeline"}
      [] task = "process_steam_data" -> {"extract_steam_data"}
      [] task = "save_to_json" -> {"process_steam_data"}
      [] task = "retry_failed_extractions" -> {"save_to_json"}
      [] task = "load_to_mongodb" -> {"save_to_json"}
      [] task = "end_pipeline" -> {"retry_failed_extractions", "load_to_mongodb"}

\* retries= of each operator (default_args: 3)
Retries(task) ==
    CASE task = "extract_steam_data" -> 2
      [] task = "process_steam_data" -> 1
      [] task = "save_to_json" -> 1
      [] task = "retry_failed_extractions" -> 1
      [] task = "load_to_mongodb" -> 2
      [] OTHER -> 3

\* Faulty variant: dag_config is not handed to DAG(...), Airflow's
\* defaults apply.
DagConfigDefaults == [max_active_runs |-> 16, concurrency |-> 16]

\* dag_config: 'max_active_runs': 1, 'concurrency': 1
DagConfig == [max_active_runs |-> 1, concurrency |-> 1]

\* The persisted artifacts a task's callable writes, under either of the
\* two airflow_etl_functions modules: call_steam_api runs
\* main_processing_workflow (or only returns the records), process_steam_data
\* saves the processed map back to steam_apps_details.json (or does nothing),
\* retry_failed_apps runs the sweep, mongodb_loader.main only opens
\* steam_apps_details.json for reading.
Artifacts == {"steam_apps_details.json", "failed_fetch_app_ids.json", "non_existent_apps.json"}

TaskWrites(task) ==
    CASE task = "extract_steam_data" ->
            {"steam_apps_details.json", "failed_fetch_app_ids.json",
             "failed_app_ids.json", "non_existent_apps.json"}
      [] task = "process_steam_data" ->
            {"steam_apps_details.json", "steam_processing_statistics.json"}
      [] task = "save_to_json" -> {"steam_processed_data.json", "steam_statistics.json"}
      [] task = "retry_failed_extractions" ->
            {"steam_apps_details.json", "failed_fetch_app_ids.json", "non_existent_apps.json"}
      [] task = "load_to_mongodb" -> {"mongodb_insert.log"}
      [] OTHER -> {}

TaskReads(task) ==
    CASE task = "extract_steam_data" -> {"steam_apps_details.json", "non_existent_apps.json"}
      [] task = "process_steam_data" -> {"steam_apps_details.json"}
      [] task = "save_to_json" -> {"steam_apps_details.json", "steam_processing_statistics.json"}
      [] task = "retry_failed_extractions" ->
            {"steam_apps_details.json", "failed_fetch_app_ids.json", "non_existent_apps.json"}
      [] task = "load_to_mongodb" -> {"steam_apps_details.json"}
      [] OTHER -> {}

NewDagRun == [task \in Tasks |-> [state |-> "none", try_number |-> 0]]

Finished(state) == state \in {"success", "failed", "upstream_failed"}

ActiveRuns == {r \in 1..Len(dag) : \E task \in Tasks : ~Finished(dag[r][task].state)}

Running == {ti \in (1..Len(dag)) \X Tasks : dag[ti[1]][ti[2]].state = "running"}

InitDag ==
    /\ InitDrivers
    /\ merge_file = NoIdsFile
    /\ merge_a = <<>>
    /\ merge_b = <<>>
    /\ merge_prev = {}
    /\ merge_applied = [a |-> 0, b |-> 0]
    /\ call = NoCall
    /\ dag = NoDag

\* schedule_interval: the scheduler creates the next run unless
\* max_active_runs runs are active.
CreateDagRun ==
    /\ Len(dag) < MaxDagRuns
    /\ Cardinality(ActiveRuns) < DagConfig.max_active_runs
    /\ dag' = Append(dag, NewDagRun)
    /\ UNCHANGED <<drivers, merge_vars, call>>

\* The scheduler starts a task instance: upstream tasks succeeded and fewer
\* than `concurrency` task instances of the DAG are running.
StartTask ==
    /\ \E r \in ActiveRuns, task \in Tasks :
          /\ dag[r][task].state \in {"none", "up_for_retry"}
          /\ \A up \in Upstream(task) : dag[r][up].state = "success"
          /\ Cardinality(Running) < DagConfig.concurrency
          /\ dag' = [dag EXCEPT ![r][task] =
                        [state |-> "running", try_number |-> @.try_number + 1]]
    /\ UNCHANGED <<drivers, merge_vars, call>>

\* The callable returned.
TaskSucceeds ==
    /\ \E ti \in Running :
          dag' = [dag EXCEPT ![ti[1]][ti[2]].state = "success"]
    /\ UNCHANGED <<drivers, merge_vars, call>>

\* The callable raised: retried while try_number <= retries.
TaskFails ==
    /\ \E ti \in Running :
          /\ ti[2] \notin DummyTasks
          /\ dag' = [dag EXCEPT ![ti[1]][ti[2]].state =
                        IF dag[ti[1]][ti[2]].try_number <= Retries(ti[2])
                        THEN "up_for_retry" ELSE "failed"]
    /\ UNCHANGED <<drivers, merge_vars, call>>

\* trigger_rule all_success: a task below a failed one is not run.
MarkUpstreamFailed ==
    /\ \E r \in ActiveRuns, task \in Tasks :
          /\ dag[r][task].state = "none"
          /\ \E up \in Upstream(task) : dag[r][up].state \in {"failed", "upstream_failed"}
          /\ dag' = [dag EXCEPT ![r][task].state = "upstream_failed"]
    /\ UNCHANGED <<drivers, merge_vars, call>>

NextDag ==
    \/ CreateDagRun
    \/ StartTask
    \/ TaskSucceeds
    \/ TaskFails
    \/ MarkUpstreamFailed

SpecDag == InitDag /\ [][NextDag]_vars

\* ------------------------------------- readers of the Detail Map file
\* Each component that walks the keys of steam_apps_details.json (or of the
\* catalog dict), called alone on a file of the caller's choice.
\* int(key): ValueError unless the key is a decimal numeral.
IsDecimal(key) == \E n \in 0..(10 * MaxId + 9) : Str(n) = key

\* What a walk over keys made of them: the IDs it converted, how many app
\* records it counted, and the exception that ended it.
Walked(ids, count, error) == [ids |-> ids, count |-> count, error |-> error]

\* fetch_all_app_details / process_failed_apps_batch: load_json_file, then
\* len(all_app_details) and str(app_id) lookups.
WalkLoadJsonFile(file) ==
    LET data == LoadJsonFile(file)
    IN Walked({IntOf(k) : k \in data}, Cardinality(data), "none")

\* validate_apps_locally: counts and converts the keys of apps_dict.
WalkValidateAppsLocally(apps_dict, details, non_existent) ==
    Walked(Range(ValidateAppsLocally(apps_dict, details, non_existent)),
           Cardinality({k \in 1..Len(apps_dict) : apps_dict[k] # "updated_at"}),
           "none")

\* prepare_app_ids: drops updated_at, then int() on every key.
PrepareAppIds(apps_dict) ==
    LET kept == SelectSeq(apps_dict, LAMBDA key : key # "updated_at")
    IN Walked({IntOf(key) : key \in Range(kept)}, Len(kept), "none")

\* mongodb_loader.main: load_json_data (raises on a missing or malformed
\* file), total_documents = len(steam_data), then prepare_documents calls
\* int() on every key of the object as it stands in the file.
MongoLoad(file) ==
    IF ~file.exists \/ file.malformed
    THEN Walked({}, 0, "load")
    ELSE LET steam_data == file.keys
         IN Walked({IntOf(k) : k \in {key \in steam_data : IsDecimal(key)}},
                   Cardinality(steam_data),
                   IF \A key \in steam_data : IsDecimal(key)
                   THEN "none" ELSE "ValueError")

WalkOps == {"load_json_file", "validate_apps_locally", "prepare_app_ids",
            "mongodb_loader"}

\* A Detail Map file as a driver left it: whole, or cut short by an
\* interrupted save, or missing.
InitKeys ==
    /\ InitProcess
    /\ \E found \in SUBSET Ids :
          details_file \in {NoDetailsFile,
                            SaveJsonFile({Str(id) : id \in found}),
                            TruncatedJsonFile({Str(id) : id \in found})}
    /\ non_existent_file = NoIdsFile
    /\ failed_file = NoIdsFile
    /\ failed_fetch_file = NoIdsFile
    /\ merge_file = NoIdsFile
    /\ merge_a = <<>>
    /\ merge_b = <<>>
    /\ merge_prev = {}
    /\ merge_applied = [a |-> 0, b |-> 0]
    /\ dag = NoDag
    /\ call \in [op : WalkOps, arg : {"steam_apps_details.json"},
                  done : {FALSE}, result : {"none"}]

WalkKeys ==
    /\ call.op \in WalkOps
    /\ ~call.done
    /\ call' = [call EXCEPT
          !.done = TRUE,
          !.result =
             CASE call.op = "load_json_file" -> WalkLoadJsonFile(details_file)
               [] call.op = "validate_apps_locally" ->
                     WalkValidateAppsLocally(AppsDict, details_file, non_existent_file)
               [] call.op = "prepare_app_ids" -> PrepareAppIds(AppsDict)
               [] call.op = "mongodb_loader" -> MongoLoad(details_file)]
    /\ UNCHANGED <<drivers, merge_vars, dag>>

NextKeys == WalkKeys

SpecKeys == InitKeys /\ [][NextKeys]_vars

\* ------------------------------------------------------- merge_ids alone
\* save_failed_app_ids_accumulative / save_non_existent_apps_accumulative
\* applied to a persisted file and two batches of the caller's choice.

InitMerge ==
    /\ InitDrivers
    /\ merge_file \in {NoIdsFile} \cup {SaveIds(ListOfSet(S)) : S \in SUBSET Ids}
    /\ merge_a \in SeqsUpTo(Ids, MaxRetryInput)
    /\ merge_b \in SeqsUpTo(Ids, MaxRetryInput)
    /\ merge_prev = Range(LoadIds(merge_file))
    /\ merge_applied = [a |-> 0, b |-> 0]
    /\ call = NoCall
    /\ dag = NoDag

MergeA ==
    /\ merge_applied.a < 2
    /\ merge_file' = SaveIdsAccumulative(merge_file, merge_a)
    /\ merge_applied' = [merge_applied EXCEPT !.a = @ + 1]
    /\ UNCHANGED <<merge_a, merge_b, merge_prev, call, dag, drivers>>

MergeB ==
    /\ merge_applied.b < 2
    /\ merge_file' = SaveIdsAccumulative(merge_file, merge_b)
    /\ merge_applied' = [merge_applied EXCEPT !.b = @ + 1]
    /\ UNCHANGED <<merge_a, merge_b, merge_prev, call, dag, drivers>>

NextMerge == MergeA \/ MergeB

SpecMerge == InitMerge /\ [][NextMerge]_vars

\* ------------------------------------------------------------ properties
\* Key set of the persisted Detail Map, as the JSON object on disk holds it.
DetailKeys == details_file.keys \ {"updated_at"}

\* The Failed-ID Set the Retry-Sweep Driver reads (failed_fetch_app_ids.json).
FailedIdSet == Range(LoadIds(failed_fetch_file))

\* The Non-existent-ID Set (non_existent_apps.json).
NonExistentIdSet == Range(LoadIds(non_existent_file))

\* A checkpoint of the batch loop has just completed.
JustCheckpointed ==
    pc \in {"process", "final_save"} /\ i > 0 /\ i % BatchSize = 0

\* A driver has just completed its final save.
JustSaved ==
    \/ pc = "done" /\ mode \in {"workflow", "fetch", "retry_batch"}
    \/ pc = "sweep_wait"
    \/ pc = "sweep_top" /\ failed_input # <<>>

\* A Retry-Sweep iteration has completed (its saves are done).
IterationDone ==
    mode = "sweep" /\ (pc = "sweep_wait" \/ (pc = "sweep_top" /\ failed_input # <<>>))

\* The step is one resolve call of the batch loop (not a skip).
ResolveStep == pc = "process" /\ i' = i + 1 /\ last'.returned # "skipped"

\* C1: after any completed checkpoint or final save of either driver, the
\* keys of the persisted Detail Map, the persisted Failed-ID Set and the
\* persisted Non-existent-ID Set are pairwise disjoint.
C1_Disjoint ==
    (JustCheckpointed \/ JustSaved) =>
        /\ {IntOf(k) : k \in DetailKeys} \cap FailedIdSet = {}
        /\ {IntOf(k) : k \in DetailKeys} \cap NonExistentIdSet = {}
        /\ FailedIdSet \cap NonExistentIdSet = {}

\* C2: an ID of the persisted Non-existent-ID Set stays in it through every
\* later step of either driver (the set only grows).
C2_NonExistentOnlyGrows ==
    [][NonExistentIdSet \subseteq Range(LoadIds(non_existent_file'))]_vars

\* C3: the persisted Detail Map never loses a key: every step leaves the
\* file with a superset of the keys it held before.
C3_DetailMapKeepsKeys ==
    [][DetailKeys \subseteq (details_file'.keys \ {"updated_at"})]_vars

\* C3 case: a run that loaded a non-empty map has saved a strictly larger one.
C3_Witness ==
    /\ pc = "done"
    /\ loaded_details # {}
    /\ loaded_details \subseteq DetailKeys
    /\ DetailKeys # loaded_details

\* C4: the Batch Driver issues no remote request for an input ID whose
\* string form is a key of the Detail Map it loaded at the start of the run.
C4_BatchDriverSkipsResolved ==
    mode \in {"workflow", "fetch"} =>
        \A id \in Ids : Str(id) \in loaded_details => outcome[id] = {}

\* C5: in a Retry-Sweep iteration, an item whose string form is a key of
\* the Detail Map is not fetched and is added to neither in-flight list,
\* however often it occurs in the failed list given to the iteration.
C5_SweepSkipsResolved ==
    [][(pc = "process" /\ IsRetry /\ i' = i + 1
            /\ Str(app_ids[i + 1]) \in all_app_details)
        => /\ last'.requests = 0
           /\ outcome' = outcome
           /\ failed_app_ids' = failed_app_ids
           /\ non_existent_apps' = non_existent_apps
           /\ all_app_details' = all_app_details]_vars

\* C5 case: the failed list held the same ID twice and its second
\* occurrence was met after the first had put it into the map.
C5_Witness ==
    /\ IsRetry
    /\ Len(failed_input) = 2
    /\ failed_input[1] = failed_input[2]
    /\ last.returned = "skipped"
    /\ last.id = failed_input[2]
    /\ outcome[last.id] = {"success"}

\* C6: after a completed Retry-Sweep iteration the persisted Failed-ID Set
\* is exactly the IDs that hard-failed in the iteration, and every ID the
\* iteration confirmed absent is in the persisted Non-existent-ID Set.
C6_SweepOverwrites ==
    IterationDone =>
        /\ LoadIds(failed_fetch_file) = failed_app_ids
        /\ FailedIdSet = {id \in Ids : "hard" \in outcome[id]}
        /\ {id \in Ids : "absent" \in outcome[id]} \subseteq NonExistentIdSet

\* C6 case: from {1,2,3} with 1 succeeding, 2 absent and 3 failing the
\* Failed-ID Set is exactly {3} and the Non-existent-ID Set holds 2.
C6_Witness ==
    /\ IterationDone
    /\ failed_input = <<1, 2, 3>>
    /\ outcome = [id \in Ids |-> CASE id = 1 -> {"success"}
                                   [] id = 2 -> {"absent"}
                                   [] id = 3 -> {"hard"}
                                   [] OTHER -> {}]
    /\ failed_fetch_file.ids = <<3>>
    /\ 2 \in NonExistentIdSet

\* The IDs the merges applied so far should have left in merge_file.
MergedIds ==
    merge_prev \cup (IF merge_applied.a > 0 THEN Range(merge_a) ELSE {})
               \cup (IF merge_applied.b > 0 THEN Range(merge_b) ELSE {})

\* C7: merge_ids is a set union: after any sequence of merges of batch A
\* and batch B (either order, each once or twice) the persisted list holds
\* exactly the distinct IDs of previous set \cup the merged batches, each
\* once, and count is the number of those IDs.
C7_MergeIsUnion ==
    (merge_applied.a + merge_applied.b > 0) =>
        /\ Range(merge_file.ids) = MergedIds
        /\ Len(merge_file.ids) = Cardinality(MergedIds)
        /\ merge_file.count = Cardinality(MergedIds)

\* C7 case: overlapping batches, one with a repeated ID, A merged twice.
C7_Witness ==
    /\ merge_a = <<1, 2>>
    /\ merge_b = <<2, 3>>
    /\ merge_prev = {1}
    /\ merge_applied = [a |-> 2, b |-> 1]
    /\ merge_file.ids = <<1, 2, 3>>
    /\ merge_file.count = 3

\* C8: when the remote answers ABSENT, resolve stops at that request (one
\* request when it is the first answer) and the driver appends the ID to
\* the non-existent list only, leaving the failed list and the map alone.
C8_AbsentIsTerminal ==
    [][(ResolveStep /\ last'.final = "success_false" /\ last'.errs < 8)
        => /\ last'.requests = last'.errs + 1
           /\ last'.returned = "absent"
           /\ non_existent_apps' = Append(non_existent_apps, last'.id)
           /\ failed_app_ids' = failed_app_ids
           /\ all_app_details' = all_app_details]_vars

\* C8 case: ABSENT on the first request.
C8_Witness ==
    /\ last.final = "success_false"
    /\ last.errs = 0
    /\ last.requests = 1
    /\ last.returned = "absent"
    /\ non_existent_apps # <<>>
    /\ non_existent_apps[Len(non_existent_apps)] = last.id

\* C9: k < 8 retryable errors and then a success cost exactly k + 1
\* requests; the ID is put into the Detail Map and into neither list.
C9_SuccessAfterErrors ==
    [][(ResolveStep /\ last'.final = "success_data" /\ last'.errs < 8)
        => /\ last'.requests = last'.errs + 1
           /\ last'.returned = "success"
           /\ all_app_details' = all_app_details \cup {Str(last'.id)}
           /\ failed_app_ids' = failed_app_ids
           /\ non_existent_apps' = non_existent_apps]_vars

\* C9 case: rate-limited twice, then success: three attempts.
C9_Witness ==
    /\ last.final = "success_data"
    /\ last.err = "rate_limited"
    /\ last.errs = 2
    /\ last.requests = 3
    /\ Str(last.id) \in all_app_details
    /\ last.id \notin Range(failed_app_ids) \cup Range(non_existent_apps)

\* C10: resolve returns (empty, True) exactly when the first 8 attempts all
\* ended in a retryable error, and it never issues more than 8 requests.
C10_HardFailureIffEightErrors ==
    last.returned \in {"success", "absent", "hard"} =>
        /\ last.returned = "hard" <=> last.errs >= 8
        /\ last.requests <= 8

\* C10 case: the remote kept failing and resolve gave up at attempt 8.
C10_Witness ==
    /\ last.returned = "hard"
    /\ last.errs > 8
    /\ last.requests = 8
    /\ failed_app_ids # <<>>
    /\ failed_app_ids[Len(failed_app_ids)] = last.id

\* The items of seq that resolve answered with `tag` in this run, in order.
Selected(seq, tag) == SelectSeq(seq, LAMBDA id : tag \in outcome[id])

\* The list holds no ID twice.
NoDuplicates(seq) == Cardinality(Range(seq)) = Len(seq)

\* C11: from empty persisted state, a completed Batch Driver run over a
\* duplicate-free input leaves exactly the succeeded IDs as Detail Map keys
\* (in memory and on disk), exactly the ABSENT IDs in the non-existent list
\* and exactly the exhausted IDs in the failed list, each in input order.
C11_PartitionByOutcome ==
    (/\ runs = 1
     /\ mode \in {"workflow", "fetch"}
     /\ pc \in {"run_fetch_phase", "save_final_results", "done"}
     /\ NoDuplicates(app_ids))
    => /\ all_app_details = {Str(id) : id \in Range(Selected(app_ids, "success"))}
       /\ DetailKeys = all_app_details
       /\ non_existent_apps = Selected(app_ids, "absent")
       /\ failed_app_ids = Selected(app_ids, "hard")

\* C11 case: input [1,2,3] with 1 success, 2 absent, 3 exhausted.
C11_Witness ==
    /\ runs = 1
    /\ pc = "done"
    /\ app_ids = <<1, 2, 3>>
    /\ DetailKeys = {"1"}
    /\ non_existent_apps = <<2>>
    /\ failed_app_ids = <<3>>

\* C12: the work set main_processing_workflow starts with is exactly the
\* catalog IDs, in catalog order, that are neither a key of the persisted
\* Detail Map nor in the persisted Non-existent-ID Set; the Failed-ID Set
\* plays no part.
C12_WorkSet ==
    [][(pc = "idle" /\ mode' = "workflow")
        => app_ids' = SelectSeq([k \in 1..MaxId |-> k],
                                LAMBDA id : /\ Str(id) \notin DetailKeys
                                            /\ id \notin NonExistentIdSet)]_vars

\* C12 case: 1 is in the map, 3 is confirmed absent, 2 is in the Failed-ID
\* Set and is the whole work set.
C12_Witness ==
    /\ mode = "workflow"
    /\ pc = "process"
    /\ i = 0
    /\ app_ids = <<2>>
    /\ 2 \in FailedIdSet
    /\ "1" \in DetailKeys
    /\ 3 \in NonExistentIdSet

\* The file is missing or does not parse.
Unreadable(file) == ~file.exists \/ file.malformed

\* C13: an interrupt or crash at any point, also inside a file save, leaves
\* every persisted file complete (its previous or its new content): no
\* later load finds a file truncated by the interrupted save.
C13_SavesAreAtomic ==
    /\ ~details_file.malformed
    /\ ~non_existent_file.malformed
    /\ ~failed_file.malformed
    /\ ~failed_fetch_file.malformed

\* C18: loading the Detail Map, the Failed-ID Set or the Non-existent-ID
\* Set from a missing or malformed file gives the empty structure and the
\* calling driver goes on as from empty state: the batch starts with an
\* empty map, the work set leaves out no ID on account of the unreadable
\* file, and the retry loop ends as with an empty Failed-ID Set.
C18_UnreadableLoadsEmpty ==
    [][/\ (pc = "idle" /\ mode' = "workflow" /\ Unreadable(details_file)
              /\ Unreadable(non_existent_file))
          => /\ app_ids' = [k \in 1..MaxId |-> k]
             /\ all_app_details' = {}
             /\ pc' = "process"
       /\ (pc = "idle" /\ mode' = "workflow" /\ Unreadable(non_existent_file))
          => \A id \in Ids : Str(id) \notin LoadJsonFile(details_file)
                                => id \in Range(app_ids')
       /\ (pc = "sweep_top" /\ pc' # "idle" /\ Unreadable(failed_fetch_file))
          => /\ pc' = "done"
             /\ app_ids' = <<>>
       /\ (pc = "sweep_top" /\ pc' = "process" /\ Unreadable(details_file))
          => /\ all_app_details' = {}
             /\ app_ids' = failed_input']_vars

\* C18 case: a truncated Detail Map that shows keys, no Non-existent-ID
\* file, and a workflow run that started over the whole catalog.
C18_Witness ==
    /\ mode = "workflow"
    /\ pc = "process"
    /\ i = 0
    /\ details_file.malformed
    /\ details_file.keys # {}
    /\ ~non_existent_file.exists
    /\ all_app_details = {}
    /\ Len(app_ids) = MaxId

\* C15: when a Batch Driver run ends (completed or interrupted), every ID
\* that hard-failed in it and that it persisted is in the Failed-ID Set the
\* next Retry-Sweep iteration loads.
C15_FailedIdsReachSweep ==
    [][(mode = "workflow" /\ pc' = "idle")
        => \A id \in Ids :
              ("hard" \in outcome[id] /\ id \in Range(LoadIds(failed_file')))
                 => id \in Range(LoadIds(failed_fetch_file'))]_vars

\* C16: the Retry-Sweep Driver ends only at the top of an iteration whose
\* loaded Failed-ID Set is empty, and the persisted Failed-ID Set is empty
\* when it has ended.
C16_SweepEndsOnEmptySet ==
    [][(mode' = "sweep" /\ pc' = "done" /\ pc # "done")
        => /\ pc = "sweep_top"
           /\ LoadIds(failed_fetch_file) = <<>>
           /\ LoadIds(failed_fetch_file') = <<>>]_vars

\* C16 case: the loop ended after an iteration that resolved every ID and
\* cleared the file.
C16_Witness ==
    /\ mode = "sweep"
    /\ pc = "done"
    /\ failed_fetch_file = SaveIds(<<>>)
    /\ DetailKeys # {}

\* C20: a Batch Driver run on an empty app_ids input writes none of the
\* persisted files (and, having no item, issues no request).
C20_EmptyInputWritesNothing ==
    [][(mode = "fetch" /\ app_ids = <<>>)
        => /\ UNCHANGED files
           /\ last' = NoLast]_vars

C14_WorkSetEmptiesForGood ==
    <>[](ValidateAppsLocally(AppsDict, details_file, non_existent_file) = <<>>)

\* C17: with a remote that resolves every retried ID at some retry, a started
\* Retry-Sweep Driver ends, and the persisted Failed-ID Set is then empty.
C17_SweepTerminates ==
    (mode = "sweep") ~> (mode = "sweep" /\ pc = "done" /\ FailedIdSet = {})

\* C17 case: the sweep has ended after iterations that found an app and
\* confirmed another absent.
C17_Witness ==
    /\ mode = "sweep"
    /\ pc = "done"
    /\ failed_fetch_file = SaveIds(<<>>)
    /\ Cardinality(Range(LoadIds(failed_file))) = MaxId
    /\ DetailKeys # {}
    /\ NonExistentIdSet # {}

\* C21: the single-attempt fetch raises on a transport error, a 429, any
\* other non-2xx status and a malformed body; on a well-formed body it returns
\* the empty record when the entry for the ID is missing, has no success flag
\* or a false one; it returns a record only for a true flag with non-empty data.
C21_FetchClassifies ==
    (call.op = "get_app_details_single" /\ call.done) =>
        LET response == call.arg.response
            body == response.body
            mine == body.kind = "object" /\ body.key = call.arg.app_id
            ok == response.status >= 200 /\ response.status < 300
        IN /\ call.result \in {"raise", "empty", "record"}
           /\ (~ok \/ body.kind = "malformed") => call.result = "raise"
           /\ (ok /\ body.kind = "object" /\ (~mine \/ body.entry \in {"no_flag", "flag_false"}))
                 => call.result = "empty"
           /\ call.result = "record" => (ok /\ mine /\ body.entry = "flag_true_data")

\* C22: resolve returns (record, False), (empty, False) or (empty, True) and
\* nothing else: no record comes with True and no exception leaves it. The
\* third shape is returned exactly when every attempt raised.
C22_ResolveShapes ==
    (call.op = "get_app_details_with_failure_info" /\ call.done) =>
        /\ <<call.result.details, call.result.is_failure>>
              \in {<<"record", FALSE>>, <<"empty", FALSE>>, <<"empty", TRUE>>}
        /\ call.result.is_failure <=> call.arg.errs >= Tries

\* C22 case: resolve has returned (empty, True) after its last attempt raised.
C22_Witness ==
    /\ call.op = "get_app_details_with_failure_info"
    /\ call.done
    /\ call.result.details = "empty"
    /\ call.result.is_failure
    /\ call.result.requests = Tries

\* C23: no reader of the Detail Map file (or of the catalog dict) converts,
\* counts or processes the key updated_at as an app ID: its walk ends without
\* a conversion error, and it counts no more app records than the file (or
\* dict) has app-ID keys.
C23_UpdatedAtIsNoAppId ==
    (call.op \in WalkOps /\ call.done) =>
        /\ call.result.error # "ValueError"
        /\ call.result.ids \subseteq Ids
        /\ call.op \in {"load_json_file", "mongodb_loader"}
              => call.result.count <= Cardinality(details_file.keys \ {"updated_at"})
        /\ call.op \in {"validate_apps_locally", "prepare_app_ids"}
              => call.result.count = MaxId

\* C24: a checkpoint of either driver leaves each persisted ID set equal to
\* the union of what it held before and the in-flight list (the Failed-ID Set
\* being the file that driver writes its failed IDs to).
C24_CheckpointMerges ==
    [][(pc = "checkpoint" /\ pc' \in {"process", "final_save"})
        => /\ Range(LoadIds(non_existent_file'))
                 = Range(LoadIds(non_existent_file)) \cup Range(non_existent_apps)
           /\ IF IsRetry
              THEN Range(LoadIds(failed_fetch_file'))
                      = Range(LoadIds(failed_fetch_file)) \cup Range(failed_app_ids)
              ELSE Range(LoadIds(failed_file'))
                      = Range(LoadIds(failed_file)) \cup Range(failed_app_ids)]_vars

\* C25: when a Retry-Sweep iteration is interrupted, every ID of the Failed-ID
\* Set it loaded is in the persisted Detail Map, the persisted Non-existent-ID
\* Set or the persisted Failed-ID Set.
C25_InterruptedSweepKeepsIds ==
    [][(mode = "sweep" /\ pc # "done" /\ pc' = "idle")
        => \A id \in Range(failed_input) :
              \/ Str(id) \in LoadJsonFile(details_file')
              \/ id \in Range(LoadIds(non_existent_file'))
              \/ id \in Range(LoadIds(failed_fetch_file'))]_vars

\* Items processed when the Detail Map was last written by a checkpoint of
\* the running loop.
LastCheckpoint ==
    IF pc = "checkpoint" THEN i - BatchSize ELSE (i \div BatchSize) * BatchSize

\* C26: the batch loop goes to its checkpoint after the i-th item exactly when
\* i is a positive multiple of batch_size, the Detail Map file is written by
\* checkpoints and final saves only, and at every point of the loop at most
\* batch_size items were processed since the last checkpoint and every record
\* resolved up to that checkpoint is in the persisted Detail Map.
C26_CheckpointEveryBatch ==
    [][/\ (pc = "process" /\ i' = i + 1)
           => (pc' = "checkpoint" <=> (i' > 0 /\ i' % BatchSize = 0))
       /\ details_file' # details_file => pc \in {"checkpoint", "final_save"}
       /\ pc' \in {"process", "checkpoint", "final_save"}
           => /\ i' - LastCheckpoint' <= BatchSize
              /\ \A k \in 1..LastCheckpoint' :
                    "success" \in outcome'[app_ids'[k]]
                       => Str(app_ids'[k]) \in LoadJsonFile(details_file')]_vars

\* C26 case: after the checkpoint at item 2 a third item was resolved; its
\* record is in memory only, the record of item 1 is on disk.
C26_Witness ==
    /\ mode = "workflow"
    /\ pc = "final_save"
    /\ i = BatchSize + 1
    /\ "success" \in outcome[app_ids[1]]
    /\ Str(app_ids[1]) \in DetailKeys
    /\ Str(app_ids[i]) \in all_app_details \ DetailKeys

\* C27: every step of the batch loop takes the next ID of the input in input
\* order and moves on to the following one (or to the checkpoint or the final
\* save after the last), whatever resolve returned; a hard failure appends the
\* ID to the in-flight failed list and changes nothing else; the loop is left
\* for the final save only when every ID of the input has been processed.
C27_FailuresDoNotEndTheBatch ==
    [][/\ (pc = "process" /\ last'.id # 0)
           => /\ last'.id = app_ids[i + 1]
              /\ i' = i + 1
              /\ app_ids' = app_ids
              /\ pc' = AfterItem(i + 1, app_ids)
              /\ last'.returned = "hard"
                    => /\ failed_app_ids' = Append(failed_app_ids, app_ids[i + 1])
                       /\ UNCHANGED <<all_app_details, non_existent_apps, files, mode>>
       /\ (pc # "final_save" /\ pc' = "final_save") => i' = Len(app_ids')]_vars

\* C27 case: the first two IDs of the input hard-failed and the third was
\* still resolved.
C27_Witness ==
    /\ mode = "workflow"
    /\ pc = "final_save"
    /\ app_ids = <<1, 2, 3>>
    /\ failed_app_ids = <<1, 2>>
    /\ last.id = 3
    /\ last.returned = "success"

C29_SuccessCountIsNewlyInserted ==
    (mode = "sweep" /\ pc = "sweep_save") => IterationSuccessful = NewAdded

\* The Batch Driver has just returned to its caller: run_fetch_phase in
\* the workflow, the caller itself otherwise.
BatchDriverReturned ==
    \/ mode = "fetch" /\ pc = "done"
    \/ mode = "workflow" /\ pc = "run_fetch_phase"

\* The IDs of this run's input whose resolve call returned `shape`.
ThisRun(shape) == {app_id \in Range(app_ids) : shape \in outcome[app_id]}

\* C30: the Batch Driver returns the Detail Map loaded at its start plus
\* the records resolved in this run, and failed / non-existent lists that
\* hold exactly the IDs of this run's input that hard-failed / were absent,
\* whatever the persisted ID sets hold.
C30_ReturnsThisRunOnly ==
    BatchDriverReturned =>
        /\ all_app_details = loaded_details \cup {Str(app_id) : app_id \in ThisRun("success")}
        /\ Range(failed_app_ids) = ThisRun("hard")
        /\ Range(non_existent_apps) = ThisRun("absent")
        /\ Range(failed_app_ids) \cup Range(non_existent_apps) \subseteq Range(app_ids)

\* A run returned a failed ID while the persisted sets hold other IDs and
\* the map held a record at the start.
C30_Witness ==
    /\ BatchDriverReturned
    /\ loaded_details # {}
    /\ failed_app_ids # <<>>
    /\ Range(LoadIds(non_existent_file)) \ Range(app_ids) # {}
    /\ Range(LoadIds(failed_file)) \ Range(failed_app_ids) # {}

\* Positions of the log of the batch loop holding event e.
LogPositions(e) ==
    {p \in 1..Len(call.result.log) : call.result.log[p].e = e}

\* Position of the event e of item k in the log (0: none).
LogPosition(e, k) ==
    LET at == {p \in LogPositions(e) : call.result.log[p].i = k}
    IN IF at = {} THEN 0 ELSE CHOOSE p \in at : TRUE

\* C31: in a batch over n IDs no request is sent while another is in
\* flight, exactly one delay sleep lies between the response for an ID and
\* the request for the next (n-1 sleeps in all), no sleep follows the last
\* ID, and the sleep after the i-th ID comes before the checkpoint of
\* that ID.
C31_SerialPacedRequests ==
    call.op = "process_app_batch" =>
        LET n == Len(call.arg)
            log == call.result.log
        IN /\ Cardinality(LogPositions("request")) - Cardinality(LogPositions("response")) \in {0, 1}
           /\ \A p \in LogPositions("request") :
                 log[p].i > 1 =>
                    Cardinality({q \in LogPositions("sleep") :
                                    LogPosition("response", log[p].i - 1) < q /\ q < p}) = 1
           /\ \A p \in LogPositions("sleep") :
                 /\ log[p].i < n
                 /\ p = LogPosition("response", log[p].i) + 1
           /\ \A p \in LogPositions("checkpoint") :
                 log[p].i < n =>
                    (LogPosition("sleep", log[p].i) > 0 /\ LogPosition("sleep", log[p].i) < p)
           /\ call.done => Cardinality(LogPositions("sleep")) = (IF n = 0 THEN 0 ELSE n - 1)

\* A batch of MaxBatch IDs ran to its end with a checkpoint on the way.
C31_Witness ==
    /\ call.op = "process_app_batch"
    /\ call.done
    /\ Len(call.arg) = MaxBatch
    /\ LogPosition("checkpoint", BatchSize) > 0
    /\ Cardinality(LogPositions("sleep")) = MaxBatch - 1

\* C32: the Retry-Sweep Driver goes into the inter-iteration wait after an
\* iteration exactly when the Failed-ID Set the iteration wrote is
\* non-empty, and the wait is entered from nowhere else; after an iteration
\* that wrote the empty set the next step is the load, which ends the loop.
C32_WaitsIffFailedSetNonEmpty ==
    [][/\ pc = "sweep_save"
           => /\ pc' \in {"sweep_wait", "sweep_top"}
              /\ pc' = "sweep_wait" <=> LoadIds(failed_fetch_file') # <<>>
       /\ (pc' = "sweep_wait" /\ pc # "sweep_wait") => pc = "sweep_save"
       /\ (pc = "sweep_top" /\ LoadIds(failed_fetch_file) = <<>>) => pc' = "done"]_vars

\* An iteration that worked on a non-empty set wrote the empty set and
\* stands before the load, not having waited.
C32_Witness ==
    /\ mode = "sweep"
    /\ pc = "sweep_top"
    /\ failed_input # <<>>
    /\ failed_fetch_file.exists
    /\ LoadIds(failed_fetch_file) = <<>>

\* Running task instances whose callable writes one of the three artifacts.
RunningMutators == {ti \in Running : TaskWrites(ti[2]) \cap Artifacts # {}}

\* C33: at most one task instance that writes one of the three persisted
\* artifacts runs at any time, within a DAG run and across DAG runs; the
\* MongoDB load task, which no dependency orders against the retry-sweep
\* task, writes none of them and reads only the Detail Map file.
C33_OneMutatorAtATime ==
    /\ Cardinality(RunningMutators) <= 1
    /\ \A ti \in Running :
          ti[2] = "load_to_mongodb" =>
             /\ ti \notin RunningMutators
             /\ TaskReads(ti[2]) \cap Artifacts = {"steam_apps_details.json"}
    /\ "load_to_mongodb" \notin Upstream("retry_failed_extractions")
    /\ "retry_failed_extractions" \notin Upstream("load_to_mongodb")

\* The second run's extraction runs after the first run's retry sweep
\* and load have run.
C33_Witness ==
    /\ Len(dag) = 2
    /\ dag[1]["retry_failed_extractions"].state = "success"
    /\ dag[1]["load_to_mongodb"].state = "success"
    /\ dag[2]["extract_steam_data"].state = "running"

\* C34: the Failed-ID Set a Retry-Sweep iteration writes at its end is a
\* subset of the set the iteration loaded, and is no longer than it.
C34_FailedSetShrinks ==
    [][pc = "sweep_save"
          => /\ Range(LoadIds(failed_fetch_file')) \subseteq Range(failed_input)
             /\ Len(LoadIds(failed_fetch_file')) <= Len(failed_input)]_vars

\* An iteration ended with a smaller, non-empty Failed-ID Set.
C34_Witness ==
    /\ mode = "sweep"
    /\ pc = "sweep_wait"
    /\ LoadIds(failed_fetch_file) # <<>>
    /\ Len(LoadIds(failed_fetch_file)) < Len(failed_input)

C36_BackoffSleeps ==
    (call.op = "get_app_details_with_retry" /\ call.done) =>
        LET sleeps == call.result.sleeps
            returned == call.result.returned
        IN /\ Len(sleeps) <= 7
           /\ Len(sleeps) = returned.requests - 1
           /\ Len(sleeps) = (IF returned.value = "raise"
                             THEN returned.errors - 1 ELSE returned.errors)
           /\ \A k \in 1..Len(sleeps) :
                 /\ sleeps[k] = (IF 2^(k - 1) <= 120 THEN 2^(k - 1) ELSE 120)
                 /\ sleeps[k] <= 120
                 /\ k > 1 => sleeps[k - 1] <= sleeps[k]

\* All 8 attempts failed: 7 sleeps, the last of 64 seconds.
C36_Witness ==
    /\ call.op = "get_app_details_with_retry"
    /\ call.done
    /\ call.result.returned.value = "raise"
    /\ call.result.returned.requests = 8
    /\ call.result.sleeps = <<1, 2, 4, 8, 16, 32, 64>>

====
